---- MODULE Spec2Model ----
(***************************************************************************)
(* Model of magic/mana.py: the mana cost parser (parse), the symbol        *)
(* classifiers (generic .. colored), the converted cost (cmc), the colors  *)
(* of a cost (colors), has_x, and the ordering of color symbols (order,    *)
(* order_score, sort_score).                                               *)
(*                                                                         *)
(* A Python str is modelled as a sequence of one-character strings, a      *)
(* token list as a sequence of such sequences.  A float total is modelled  *)
(* as an integer number of halves (total 1.0 is 2, total 0.5 is 1).        *)
(***************************************************************************)
EXTENDS Integers, Sequences, FiniteSets, TLC

VARIABLES s, stripped, pos, mode, tmp, tokens, pc, err, total,
          cs, has, symbols_arg, ordered, score, peer

\* the value colors returned, the value has_x returned
returned == <<cs, has>>

\* the argument symbols of order and sort_score and the values they returned
ordering == <<symbols_arg, ordered, score>>

vars == <<s, stripped, pos, mode, tmp, tokens, pc, err, total,
          cs, has, symbols_arg, ordered, score, peer>>

(***************************************************************************)
(* Bounds of the model.                                                    *)
(***************************************************************************)
\* longest raw input string drawn character by character
MaxLen == 4
\* largest number of brace groups in an input drawn group by group
MaxGroups == 3
\* largest number of symbols in an argument of order and sort_score
MaxSymbols == 3

(***************************************************************************)
(* Module constants, mana.py lines 10-17.  The mode of the scan is one of  *)
(* these strings; DIGIT, COLOR, X, SLASH, MODIFIER and HALF are also used  *)
(* as regular expressions on one character (the Match operators below).    *)
(***************************************************************************)
START == ""
DIGIT == "[0-9]"
COLOR == "[WURBGCS]"
X == "[XYZ]"
SLASH == "/"
MODIFIER == "P"
HALF == "H"
HYBRID == "SPECIAL-HYBRID"

\* re.match(DIGIT, c) for a one-character c
MatchDigit(c) == c \in {"0", "1", "2", "3", "4", "5", "6", "7", "8", "9"}
\* re.match(COLOR, c)
MatchColor(c) == c \in {"W", "U", "R", "B", "G", "C", "S"}
\* re.match(X, c)
MatchX(c) == c \in {"X", "Y", "Z"}
\* re.match(SLASH, c)
MatchSlash(c) == c = "/"
\* re.match(MODIFIER, c)
MatchModifier(c) == c = "P"
\* re.match(HALF, c)
MatchHalf(c) == c = "H"

(***************************************************************************)
(* The exception of a call: kind "none" while nothing was raised.          *)
(* InvalidManaCostException messages are built from the character c (or    *)
(* the symbol) and the input s; the model keeps those arguments.           *)
(***************************************************************************)
NoErr == [kind |-> "none", c |-> <<>>, s |-> <<>>]
Raise(kind, c, str) == [kind |-> kind, c |-> c, s |-> str]

\* s.replace(old, ''): every occurrence of the character is removed
RECURSIVE Replace(_, _)
Replace(str, old) ==
    IF str = <<>> THEN <<>>
    ELSE IF Head(str) = old THEN Replace(Tail(str), old)
         ELSE <<Head(str)>> \o Replace(Tail(str), old)

\* mutant: only the opening braces are removed
StripOpenOnly(str) == Replace(str, "{")

\* line 23: stripped = s.replace('{', '').replace('}', '')
Strip(str) == Replace(Replace(str, "{"), "}")

(***************************************************************************)
(* One iteration of the loop of parse (lines 24-102), by mode.  st is the  *)
(* record [mode, tmp, tokens, err] of the locals, raw the argument s.      *)
(***************************************************************************)
Locals(m, t, toks) == [mode |-> m, tmp |-> t, tokens |-> toks, err |-> NoErr]
\* mutant: the message is formatted with tmp in the place of s
RaisedWithTmp(st, kind, c, raw) == [st EXCEPT !.err = Raise(kind, <<c>>, st.tmp)]

Raised(st, kind, c, raw) == [st EXCEPT !.err = Raise(kind, <<c>>, raw)]

\* lines 25-40
StartStep(st, c, raw) ==
    IF MatchDigit(c) THEN Locals(DIGIT, st.tmp \o <<c>>, st.tokens)
    ELSE IF MatchColor(c) THEN Locals(COLOR, st.tmp \o <<c>>, st.tokens)
    ELSE IF MatchX(c) THEN Locals(START, <<>>, Append(st.tokens, <<c>>))
    ELSE IF MatchHalf(c) THEN Locals(HALF, st.tmp \o <<c>>, st.tokens)
    ELSE Raised(st, "start", c, raw)

\* mutant: a variable after a digit is not accepted
DigitStepNoVariable(st, c, raw) ==
    IF MatchDigit(c) THEN Locals(st.mode, st.tmp \o <<c>>, st.tokens)
    ELSE IF MatchColor(c)
         THEN Locals(COLOR, <<c>>, Append(st.tokens, st.tmp))
    ELSE IF MatchSlash(c) THEN Locals(SLASH, st.tmp \o <<c>>, st.tokens)
    ELSE Raised(st, "digit", c, raw)

\* lines 41-52
DigitStep(st, c, raw) ==
    IF MatchDigit(c) THEN Locals(st.mode, st.tmp \o <<c>>, st.tokens)
    ELSE IF MatchColor(c) \/ MatchX(c)
         THEN Locals(COLOR, <<c>>, Append(st.tokens, st.tmp))
    ELSE IF MatchSlash(c) THEN Locals(SLASH, st.tmp \o <<c>>, st.tokens)
    ELSE Raised(st, "digit", c, raw)

\* mutant: a color after a color is appended to tmp, not started as a token
ColorStepMerges(st, c, raw) ==
    IF MatchColor(c) THEN Locals(COLOR, st.tmp \o <<c>>, st.tokens)
    ELSE IF MatchSlash(c) THEN Locals(SLASH, st.tmp \o <<c>>, st.tokens)
    ELSE Raised(st, "color", c, raw)

\* lines 53-62
ColorStep(st, c, raw) ==
    IF MatchColor(c) THEN Locals(COLOR, <<c>>, Append(st.tokens, st.tmp))
    ELSE IF MatchSlash(c) THEN Locals(SLASH, st.tmp \o <<c>>, st.tokens)
    ELSE Raised(st, "color", c, raw)

\* mutant: tmp is not cleared after the Phyrexian token is emitted
SlashStepKeepsTmp(st, c, raw) ==
    IF MatchModifier(c)
    THEN Locals(START, st.tmp, Append(st.tokens, st.tmp \o <<c>>))
    ELSE IF MatchColor(c) THEN Locals(HYBRID, st.tmp \o <<c>>, st.tokens)
    ELSE Raised(st, "slash", c, raw)

\* lines 63-72
SlashStep(st, c, raw) ==
    IF MatchModifier(c)
    THEN Locals(START, <<>>, Append(st.tokens, st.tmp \o <<c>>))
    ELSE IF MatchColor(c) THEN Locals(HYBRID, st.tmp \o <<c>>, st.tokens)
    ELSE Raised(st, "slash", c, raw)

\* mutant: the half token is emitted without its marker
HalfStepDropsMarker(st, c, raw) ==
    IF MatchColor(c) THEN Locals(START, <<>>, Append(st.tokens, <<c>>))
    ELSE Raised(st, "half", c, raw)

\* lines 73-79
HalfStep(st, c, raw) ==
    IF MatchColor(c)
    THEN Locals(START, <<>>, Append(st.tokens, st.tmp \o <<c>>))
    ELSE Raised(st, "half", c, raw)

\* mutant: a variable after a hybrid drops the pending hybrid token
HybridStepDropsTmp(st, c, raw) ==
    IF MatchSlash(c) THEN Locals(SLASH, st.tmp \o <<c>>, st.tokens)
    ELSE IF MatchDigit(c) THEN Locals(DIGIT, <<c>>, Append(st.tokens, st.tmp))
    ELSE IF MatchColor(c) THEN Locals(COLOR, <<c>>, Append(st.tokens, st.tmp))
    ELSE IF MatchX(c) THEN Locals(START, <<>>, Append(st.tokens, <<c>>))
    ELSE IF MatchHalf(c) THEN Locals(HALF, <<c>>, Append(st.tokens, st.tmp))
    ELSE Raised(st, "hybrid", c, raw)

\* lines 80-102
HybridStep(st, c, raw) ==
    IF MatchSlash(c) THEN Locals(SLASH, st.tmp \o <<c>>, st.tokens)
    ELSE IF MatchDigit(c) THEN Locals(DIGIT, <<c>>, Append(st.tokens, st.tmp))
    ELSE IF MatchColor(c) THEN Locals(COLOR, <<c>>, Append(st.tokens, st.tmp))
    ELSE IF MatchX(c)
         THEN Locals(START, <<>>, Append(Append(st.tokens, st.tmp), <<c>>))
    ELSE IF MatchHalf(c) THEN Locals(HALF, <<c>>, Append(st.tokens, st.tmp))
    ELSE Raised(st, "hybrid", c, raw)

\* the if/elif chain on mode, lines 25, 41, 53, 63, 73, 80; a mode that
\* matches no branch leaves the locals alone
Step(st, c, raw) ==
    IF st.mode = START THEN StartStep(st, c, raw)
    ELSE IF st.mode = DIGIT THEN DigitStep(st, c, raw)
    ELSE IF st.mode = COLOR THEN ColorStep(st, c, raw)
    ELSE IF st.mode = SLASH THEN SlashStep(st, c, raw)
    ELSE IF st.mode = HALF THEN HalfStep(st, c, raw)
    ELSE IF st.mode = HYBRID THEN HybridStep(st, c, raw)
    ELSE st

\* mutant: the pending token is not appended after the loop
FinalDropsTmp(t, toks) == toks

\* lines 103-105: the tokens parse returns from the locals after the loop
Final(t, toks) == IF t # <<>> THEN Append(toks, t) ELSE toks

\* the for loop of line 24 from the k-th character of chars on; it stops at
\* the first iteration that raises
RECURSIVE ParseLoop(_, _, _, _)
ParseLoop(st, chars, k, raw) ==
    IF k > Len(chars) THEN st
    ELSE LET n == Step(st, chars[k], raw) IN
         IF n.err # NoErr THEN n ELSE ParseLoop(n, chars, k + 1, raw)

\* parse(s), lines 19-105, as a function of its argument: the tokens it
\* returns, or the exception it raises
parse(raw) ==
    LET st == ParseLoop(Locals(START, <<>>, <<>>), Strip(raw), 1, raw) IN
    IF st.err # NoErr
    THEN [raised |-> TRUE, tokens |-> <<>>, err |-> st.err]
    ELSE [raised |-> FALSE, tokens |-> Final(st.tmp, st.tokens), err |-> NoErr]

(***************************************************************************)
(* The classifiers, lines 151-170: each a regular expression anchored at   *)
(* both ends, matched here position by position.                           *)
(***************************************************************************)
\* '^[0-9]+$'
generic(symbol) ==
    Len(symbol) >= 1 /\ \A k \in 1..Len(symbol) : MatchDigit(symbol[k])

\* '^[XYZ]$'
variable(symbol) == Len(symbol) = 1 /\ MatchX(symbol[1])

\* '^([WURBGCS]/)?[WURBGCS]/P$'
phyrexian(symbol) ==
    \/ /\ Len(symbol) = 3
       /\ MatchColor(symbol[1]) /\ symbol[2] = "/" /\ symbol[3] = "P"
    \/ /\ Len(symbol) = 5
       /\ MatchColor(symbol[1]) /\ symbol[2] = "/"
       /\ MatchColor(symbol[3]) /\ symbol[4] = "/" /\ symbol[5] = "P"

\* '^[WURBGCS]/[WURBGCS](/P)?$'
hybrid(symbol) ==
    /\ Len(symbol) \in {3, 5}
    /\ MatchColor(symbol[1]) /\ symbol[2] = "/" /\ MatchColor(symbol[3])
    /\ Len(symbol) = 5 => symbol[4] = "/" /\ symbol[5] = "P"

\* '^2/[WURBGCS]$'
twobrid(symbol) ==
    Len(symbol) = 3 /\ symbol[1] = "2" /\ symbol[2] = "/" /\ MatchColor(symbol[3])

\* '^H[WURBGCS]$'
half(symbol) == Len(symbol) = 2 /\ symbol[1] = "H" /\ MatchColor(symbol[2])

\* mutant: the pattern is not anchored at the end, '^[WURBGCS]'
coloredNoEnd(symbol) == Len(symbol) >= 1 /\ MatchColor(symbol[1])

\* '^[WURBGCS]$'
colored(symbol) == Len(symbol) = 1 /\ MatchColor(symbol[1])

(***************************************************************************)
(* cmc, lines 133-149.                                                     *)
(***************************************************************************)
DigitChars == <<"0", "1", "2", "3", "4", "5", "6", "7", "8", "9">>
DigitValue(c) == (CHOOSE k \in 1..10 : DigitChars[k] = c) - 1

\* int(symbol) of a string of decimal digits
RECURSIVE IntOf(_)
IntOf(symbol) ==
    IF symbol = <<>> THEN 0
    ELSE 10 * IntOf(SubSeq(symbol, 1, Len(symbol) - 1))
         + DigitValue(symbol[Len(symbol)])

\* mutant: a two-brid symbol is counted as one mana, like a hybrid one
RECURSIVE CmcLoopTwobridOne(_, _, _)
CmcLoopTwobridOne(symbols, k, tot) ==
    IF k > Len(symbols) THEN [total |-> tot, err |-> NoErr]
    ELSE LET symbol == symbols[k] IN
         IF generic(symbol)
         THEN CmcLoopTwobridOne(symbols, k + 1, tot + 2 * IntOf(symbol))
         ELSE IF twobrid(symbol) THEN CmcLoopTwobridOne(symbols, k + 1, tot + 2)
         ELSE IF half(symbol) THEN CmcLoopTwobridOne(symbols, k + 1, tot + 1)
         ELSE IF variable(symbol) THEN CmcLoopTwobridOne(symbols, k + 1, tot)
         ELSE IF phyrexian(symbol) \/ hybrid(symbol) \/ colored(symbol)
              THEN CmcLoopTwobridOne(symbols, k + 1, tot + 2)
         ELSE [total |-> tot, err |-> Raise("cmc", symbol, <<>>)]

\* mutant: the amounts of the two-brid and of the half branch are swapped
RECURSIVE CmcLoopSwapped(_, _, _)
CmcLoopSwapped(symbols, k, tot) ==
    IF k > Len(symbols) THEN [total |-> tot, err |-> NoErr]
    ELSE LET symbol == symbols[k] IN
         IF generic(symbol)
         THEN CmcLoopSwapped(symbols, k + 1, tot + 2 * IntOf(symbol))
         ELSE IF twobrid(symbol) THEN CmcLoopSwapped(symbols, k + 1, tot + 1)
         ELSE IF half(symbol) THEN CmcLoopSwapped(symbols, k + 1, tot + 4)
         ELSE IF variable(symbol) THEN CmcLoopSwapped(symbols, k + 1, tot)
         ELSE IF phyrexian(symbol) \/ hybrid(symbol) \/ colored(symbol)
              THEN CmcLoopSwapped(symbols, k + 1, tot + 2)
         ELSE [total |-> tot, err |-> Raise("cmc", symbol, <<>>)]

\* lines 136-148 from the k-th symbol on, the running total counted in halves;
\* the result is the total and the exception, if one was raised
\* (the message of line 148 is built from the symbol alone)
RECURSIVE CmcLoop(_, _, _)
CmcLoop(symbols, k, tot) ==
    IF k > Len(symbols) THEN [total |-> tot, err |-> NoErr]
    ELSE LET symbol == symbols[k] IN
         IF generic(symbol) THEN CmcLoop(symbols, k + 1, tot + 2 * IntOf(symbol))
         ELSE IF twobrid(symbol) THEN CmcLoop(symbols, k + 1, tot + 4)
         ELSE IF half(symbol) THEN CmcLoop(symbols, k + 1, tot + 1)
         ELSE IF variable(symbol) THEN CmcLoop(symbols, k + 1, tot)
         ELSE IF phyrexian(symbol) \/ hybrid(symbol) \/ colored(symbol)
              THEN CmcLoop(symbols, k + 1, tot + 2)
         ELSE [total |-> tot, err |-> Raise("cmc", symbol, <<>>)]

(***************************************************************************)
(* colors, colors_from_colored_symbols and colored_symbols, lines 107-131. *)
(* A color in a list or a set is a Python str: a sequence of one character.*)
(***************************************************************************)
\* symbol.split(sep): the parts of symbol between the occurrences of sep
RECURSIVE SplitFrom(_, _, _)
SplitFrom(symbol, sep, part) ==
    IF symbol = <<>> THEN <<part>>
    ELSE IF Head(symbol) = sep
         THEN <<part>> \o SplitFrom(Tail(symbol), sep, <<>>)
         ELSE SplitFrom(Tail(symbol), sep, Append(part, Head(symbol)))

Split(symbol, sep) == SplitFrom(symbol, sep, <<>>)

\* mutant: phyrexian is tested before hybrid
RECURSIVE ColoredSymbolsLoopPhyrexianFirst(_, _, _)
ColoredSymbolsLoopPhyrexianFirst(syms, k, lists) ==
    IF k > Len(syms) THEN [cs |-> lists, err |-> NoErr]
    ELSE LET symbol == syms[k] IN
         IF generic(symbol) \/ variable(symbol)
         THEN ColoredSymbolsLoopPhyrexianFirst(syms, k + 1, lists)
         ELSE IF phyrexian(symbol)
         THEN ColoredSymbolsLoopPhyrexianFirst(syms, k + 1,
                  [lists EXCEPT !.also = Append(@, <<symbol[1]>>)])
         ELSE IF hybrid(symbol)
         THEN LET parts == Split(symbol, SLASH) IN
              ColoredSymbolsLoopPhyrexianFirst(syms, k + 1,
                  [lists EXCEPT !.also = Append(Append(@, parts[1]), parts[2])])
         ELSE IF twobrid(symbol)
         THEN LET parts == Split(symbol, SLASH) IN
              ColoredSymbolsLoopPhyrexianFirst(syms, k + 1,
                  [lists EXCEPT !.also = Append(@, parts[2])])
         ELSE IF colored(symbol)
         THEN ColoredSymbolsLoopPhyrexianFirst(syms, k + 1,
                  [lists EXCEPT !.required = Append(@, symbol)])
         ELSE [cs |-> lists, err |-> Raise("colored_symbols", symbol, syms)]

\* lines 115-130 from the k-th symbol on; lists is the dict cs of the two
\* lists (parts[0], parts[1] and symbol[0] of Python are parts[1], parts[2]
\* and symbol[1] here)
RECURSIVE ColoredSymbolsLoop(_, _, _)
ColoredSymbolsLoop(syms, k, lists) ==
    IF k > Len(syms) THEN [cs |-> lists, err |-> NoErr]
    ELSE LET symbol == syms[k] IN
         IF generic(symbol) \/ variable(symbol)
         THEN ColoredSymbolsLoop(syms, k + 1, lists)
         ELSE IF hybrid(symbol)
         THEN LET parts == Split(symbol, SLASH) IN
              ColoredSymbolsLoop(syms, k + 1,
                  [lists EXCEPT !.also = Append(Append(@, parts[1]), parts[2])])
         ELSE IF phyrexian(symbol)
         THEN ColoredSymbolsLoop(syms, k + 1,
                  [lists EXCEPT !.also = Append(@, <<symbol[1]>>)])
         ELSE IF twobrid(symbol)
         THEN LET parts == Split(symbol, SLASH) IN
              ColoredSymbolsLoop(syms, k + 1,
                  [lists EXCEPT !.also = Append(@, parts[2])])
         ELSE IF colored(symbol)
         THEN ColoredSymbolsLoop(syms, k + 1,
                  [lists EXCEPT !.required = Append(@, symbol)])
         ELSE [cs |-> lists, err |-> Raise("colored_symbols", symbol, syms)]

\* lines 113-131
colored_symbols(syms) ==
    ColoredSymbolsLoop(syms, 1, [required |-> <<>>, also |-> <<>>])

\* set(list)
SetOf(list) == {list[k] : k \in 1..Len(list)}

\* lines 110-111
colors_from_colored_symbols(all_colored_symbols) ==
    [required |-> SetOf(all_colored_symbols.required),
     also |-> SetOf(all_colored_symbols.also)]

(***************************************************************************)
(* has_x, lines 172-173, on the symbols parse returned.                    *)
(***************************************************************************)
\* mutant: only the first symbol is looked at
has_x_first(syms) == Len(syms) > 0 /\ variable(syms[1])

\* len([symbol for symbol in parse(mana_cost) if variable(symbol)]) > 0
has_x(syms) == Len(SelectSeq(syms, variable)) > 0

(***************************************************************************)
(* order, order_score and sort_score, lines 175-202.  Their argument is a  *)
(* collection of one-character strings, modelled as a sequence of          *)
(* characters.  list.index raises ValueError for a missing element.        *)
(***************************************************************************)
\* x in list
InList(list, x) == \E k \in 1..Len(list) : list[k] = x

\* list.index(x) for an x in list (Python counts from 0)
Index(list, x) ==
    (CHOOSE k \in 1..Len(list) :
         list[k] = x /\ \A j \in 1..(k - 1) : list[j] # x) - 1

\* line 184
positions == <<"W", "U", "B", "R", "G">>

\* a value an operation returns, and the ValueError list.index(x) raises
Value(v) == [err |-> NoErr, value |-> v]
ValueError(x) == [err |-> Raise("ValueError", <<x>>, <<>>), value |-> 0]

\* mutant: the distance is not wrapped around the wheel
RECURSIVE OrderScoreLoopNoWrap(_, _, _, _)
OrderScoreLoopNoWrap(syms, k, current, sc) ==
    IF k > Len(syms) THEN Value(sc)
    ELSE IF ~InList(positions, syms[k]) THEN ValueError(syms[k])
    ELSE LET position == Index(positions, syms[k])
         IN OrderScoreLoopNoWrap(syms, k + 1, position, sc + position - current)

\* lines 186-192 from the k-th symbol on
RECURSIVE OrderScoreLoop(_, _, _, _)
OrderScoreLoop(syms, k, current, sc) ==
    IF k > Len(syms) THEN Value(sc)
    ELSE IF ~InList(positions, syms[k]) THEN ValueError(syms[k])
    ELSE LET position == Index(positions, syms[k])
             distance == IF position < current
                         THEN position - current + Len(positions)
                         ELSE position - current
         IN OrderScoreLoop(syms, k + 1, position, sc + distance)

\* mutant: only 'C' is left out of the score
order_score_keeps_S(initial_symbols) ==
    LET syms == SelectSeq(initial_symbols, LAMBDA x : x \notin {"C"}) IN
    IF syms = <<>> THEN Value(0)
    ELSE IF ~InList(positions, syms[1]) THEN ValueError(syms[1])
    ELSE LET r == OrderScoreLoop(syms, 2, Index(positions, syms[1]), 0) IN
         IF r.err # NoErr THEN r
         ELSE Value(r.value * 10 + Index(positions, syms[1]))

\* mutant: the index of the first symbol is not added to the score
order_score_no_offset(initial_symbols) ==
    LET syms == SelectSeq(initial_symbols, LAMBDA x : x \notin {"C", "S"}) IN
    IF syms = <<>> THEN Value(0)
    ELSE IF ~InList(positions, syms[1]) THEN ValueError(syms[1])
    ELSE LET r == OrderScoreLoop(syms, 2, Index(positions, syms[1]), 0) IN
         IF r.err # NoErr THEN r
         ELSE Value(r.value * 10)

\* mutant: the index of the last symbol is added in the place of the first
order_score_offset_last(initial_symbols) ==
    LET syms == SelectSeq(initial_symbols, LAMBDA x : x \notin {"C", "S"}) IN
    IF syms = <<>> THEN Value(0)
    ELSE IF ~InList(positions, syms[1]) THEN ValueError(syms[1])
    ELSE LET r == OrderScoreLoop(syms, 2, Index(positions, syms[1]), 0) IN
         IF r.err # NoErr THEN r
         ELSE Value(r.value * 10 + Index(positions, syms[Len(syms)]))

\* lines 179-193
order_score(initial_symbols) ==
    LET syms == SelectSeq(initial_symbols, LAMBDA x : x \notin {"C", "S"}) IN
    IF syms = <<>> THEN Value(0)
    ELSE IF ~InList(positions, syms[1]) THEN ValueError(syms[1])
    ELSE LET r == OrderScoreLoop(syms, 2, Index(positions, syms[1]), 0) IN
         IF r.err # NoErr THEN r
         ELSE Value(r.value * 10 + Index(positions, syms[1]))

\* the pool without its i-th element
Without(pool, i) == SubSeq(pool, 1, i - 1) \o SubSeq(pool, i + 1, Len(pool))

\* itertools.permutations(pool): the tuples in the order they are generated,
\* which is the lexicographic order of the positions in pool; StartingAt is
\* the part of them that starts with the i-th or a later element of pool
RECURSIVE permutations(_), StartingAt(_, _)
permutations(pool) ==
    IF pool = <<>> THEN << <<>> >> ELSE StartingAt(pool, 1)

StartingAt(pool, i) ==
    IF i > Len(pool) THEN <<>>
    ELSE LET rest == permutations(Without(pool, i)) IN
         [k \in 1..Len(rest) |-> <<pool[i]>> \o rest[k]]
             \o StartingAt(pool, i + 1)

\* the position a stable sort in ascending order of key gives the k-th
\* pair: after the pairs of a smaller key and the earlier pairs of its key
Rank(pairs, k) ==
    Cardinality({j \in 1..Len(pairs) :
                    \/ pairs[j].key < pairs[k].key
                    \/ pairs[j].key = pairs[k].key /\ j < k}) + 1

\* sorted(items, key=...): the [item, key] pairs in ascending order of key,
\* equal keys in their original order
Sorted(pairs) ==
    [r \in 1..Len(pairs) |->
        pairs[CHOOSE k \in 1..Len(pairs) : Rank(pairs, k) = r]]

\* the keys sorted(items, key=order_score) computes before it sorts, one
\* per item in the order of the items, here for the items lo..hi: the [item,
\* key] pairs, or the first ValueError, which ends the call
RECURSIVE Keyed(_, _, _)
Keyed(items, lo, hi) ==
    IF lo > hi THEN Value(<<>>)
    ELSE IF lo = hi
    THEN LET key == order_score(items[lo]) IN
         IF key.err # NoErr THEN [err |-> key.err, value |-> <<>>]
         ELSE Value(<<[item |-> items[lo], key |-> key.value]>>)
    ELSE LET mid == (lo + hi) \div 2
             left == Keyed(items, lo, mid)
         IN IF left.err # NoErr THEN left
            ELSE LET right == Keyed(items, mid + 1, hi) IN
                 IF right.err # NoErr THEN right
                 ELSE Value(left.value \o right.value)

\* mutant: the last permutation of the sorted list is returned
order_last(syms) ==
    LET perms == permutations(syms)
        keyed == Keyed(perms, 1, Len(perms))
    IN
    IF keyed.err # NoErr THEN [err |-> keyed.err, value |-> <<>>]
    ELSE Value(Sorted(keyed.value)[Len(keyed.value)].item)

\* mutant: of the permutations of equal score the last generated one is kept
order_last_of_ties(syms) ==
    LET perms == permutations(syms)
        keyed == Keyed(perms, 1, Len(perms))
    IN
    IF keyed.err # NoErr THEN [err |-> keyed.err, value |-> <<>>]
    ELSE LET n == Len(keyed.value) IN
         Value(Sorted([k \in 1..n |-> keyed.value[n + 1 - k]])[1].item)

\* lines 175-177: list(sorted(permutations, key=order_score)[0])
order(syms) ==
    LET perms == permutations(syms)
        keyed == Keyed(perms, 1, Len(perms))
    IN
    IF keyed.err # NoErr THEN [err |-> keyed.err, value |-> <<>>]
    ELSE Value(Sorted(keyed.value)[1].item)

\* None, the first element of the list of line 198: no symbol equals it
None == "None"

\* line 198
sort_positions == <<None, "C", "S", "W", "U", "B", "R", "G">>

\* mutant: the symbols are enumerated in the order given
NotReversed(syms) == syms

\* reversed(symbols)
Reversed(syms) == [k \in 1..Len(syms) |-> syms[Len(syms) + 1 - k]]

\* mutant: enumerate counts from 0
RECURSIVE SortScoreLoopFromZero(_, _, _)
SortScoreLoopFromZero(rev, i, sc) ==
    IF i > Len(rev) THEN Value(sc)
    ELSE IF ~InList(sort_positions, rev[i]) THEN ValueError(rev[i])
    ELSE SortScoreLoopFromZero(rev, i + 1,
             sc + Index(sort_positions, rev[i]) * 10 * (i - 1))

\* lines 200-201 from the i-th element of reversed(symbols) on
RECURSIVE SortScoreLoop(_, _, _)
SortScoreLoop(rev, i, sc) ==
    IF i > Len(rev) THEN Value(sc)
    ELSE IF ~InList(sort_positions, rev[i]) THEN ValueError(rev[i])
    ELSE SortScoreLoop(rev, i + 1, sc + Index(sort_positions, rev[i]) * 10 * i)

\* lines 197-202
sort_score(syms) == SortScoreLoop(Reversed(syms), 1, 0)

(***************************************************************************)
(* Inputs.                                                                 *)
(***************************************************************************)
\* characters of the inputs drawn character by character: two digits, a
\* color, a variable, the half marker, the modifier, the slash, the braces
\* and a character of no class
Alphabet == {"1", "2", "W", "X", "H", "P", "/", "Q", "{", "}"}

RawStrings == UNION {[1..n -> Alphabet] : n \in 0..MaxLen}

\* one token of each canonical shape (two generic ones)
CanonicalGroups ==
    { <<"1">>, <<"2">>, <<"X">>, <<"W">>, <<"H", "U">>, <<"W", "/", "U">>,
      <<"W", "/", "U", "/", "P">>, <<"2", "/", "W">>, <<"U", "/", "P">> }

\* the cost strings the documentation of the engine names
Examples ==
    { <<"{", "2", "}", "{", "W", "/", "U", "}", "{", "X", "}">>,
      <<"{", "W", "/", "U", "/", "P", "}">>,
      <<"{", "H", "}", "{", "W", "}">>,
      <<"{", "H", "W", "}">>,
      <<"{", "2", "/", "W", "}">>,
      <<"{", "Q", "}">>,
      <<"{", "W", "/", "}">>,
      <<"{", "2", "/", "}">>,
      <<"{", "X", "}", "{", "X", "}", "{", "2", "}">>,
      <<"{", "2", "}", "{", "W", "}">> }

\* "{t1}{t2}...{tn}"
RECURSIVE Braced(_)
Braced(groups) ==
    IF groups = <<>> THEN <<>>
    ELSE <<"{">> \o Head(groups) \o <<"}">> \o Braced(Tail(groups))

GroupSeqs == UNION {[1..n -> CanonicalGroups] : n \in 0..MaxGroups}

(***************************************************************************)
(* The calls.  A behaviour is one call of parse(s), lines 19-105, followed *)
(* by the loop of cmc(s), lines 135-149, by colors, lines 107-131, or by   *)
(* the test of has_x, line 173, on the tokens it returned.                 *)
(***************************************************************************)
\* the frame of a second call of cmc that runs at the same time: its
\* argument, its locals (lines 20-23, 135) and its position
Frame(str, at) ==
    [s |-> str, stripped |-> <<>>, pos |-> 1, mode |-> START, tmp |-> <<>>,
     tokens |-> <<>>, pc |-> at, err |-> NoErr, total |-> 0]

\* no second call
NoPeer == Frame(<<>>, "none")

InitLocals ==
    /\ stripped = <<>>
    /\ pos = 1
    /\ mode = START
    /\ tmp = <<>>
    /\ tokens = <<>>
    /\ pc = "strip"
    /\ err = NoErr
    /\ total = 0
    /\ cs = [required |-> {}, also |-> {}]
    /\ has = FALSE
    /\ symbols_arg = <<>>
    /\ ordered = <<>>
    /\ score = 0
    /\ peer = NoPeer

Init == s \in (RawStrings \cup Examples) /\ InitLocals

InitGroups == s \in {Braced(g) : g \in GroupSeqs} /\ InitLocals

\* line 23
StripBraces ==
    /\ pc = "strip"
    /\ stripped' = Strip(s)
    /\ pc' = "scan"
    /\ UNCHANGED <<s, pos, mode, tmp, tokens, err, total>>
    /\ UNCHANGED <<returned, ordering, peer>>

\* mutant: a raised exception is swallowed and the loop goes on
IterateContinues(st) ==
    /\ mode' = st.mode
    /\ tmp' = st.tmp
    /\ tokens' = st.tokens
    /\ err' = st.err
    /\ pc' = "scan"
    /\ pos' = pos + 1
    /\ UNCHANGED <<s, stripped, total>>
    /\ UNCHANGED <<returned, ordering, peer>>

\* the assignments of one iteration of the for loop of line 24: the locals
\* become st, and a raised exception ends the call
Iterate(st) ==
    /\ mode' = st.mode
    /\ tmp' = st.tmp
    /\ tokens' = st.tokens
    /\ err' = st.err
    /\ pc' = IF st.err = NoErr THEN "scan" ELSE "error"
    /\ pos' = IF st.err = NoErr THEN pos + 1 ELSE pos
    /\ UNCHANGED <<s, stripped, total>>
    /\ UNCHANGED <<returned, ordering, peer>>

\* the character c of this iteration, line 24
HasChar == pc = "scan" /\ pos <= Len(stripped)

\* lines 25-40
ScanStart ==
    /\ HasChar
    /\ mode = START
    /\ Iterate(StartStep(Locals(mode, tmp, tokens), stripped[pos], s))

\* lines 41-52
ScanDigit ==
    /\ HasChar
    /\ mode = DIGIT
    /\ Iterate(DigitStep(Locals(mode, tmp, tokens), stripped[pos], s))

\* lines 53-62
ScanColor ==
    /\ HasChar
    /\ mode = COLOR
    /\ Iterate(ColorStep(Locals(mode, tmp, tokens), stripped[pos], s))

\* lines 63-72
ScanSlash ==
    /\ HasChar
    /\ mode = SLASH
    /\ Iterate(SlashStep(Locals(mode, tmp, tokens), stripped[pos], s))

\* lines 73-79
ScanHalf ==
    /\ HasChar
    /\ mode = HALF
    /\ Iterate(HalfStep(Locals(mode, tmp, tokens), stripped[pos], s))

\* lines 80-102
ScanHybrid ==
    /\ HasChar
    /\ mode = HYBRID
    /\ Iterate(HybridStep(Locals(mode, tmp, tokens), stripped[pos], s))

\* lines 103-105
Finish ==
    /\ pc = "scan"
    /\ pos > Len(stripped)
    /\ tokens' = Final(tmp, tokens)
    /\ pc' = "parsed"
    /\ UNCHANGED <<s, stripped, pos, mode, tmp, err, total>>
    /\ UNCHANGED <<returned, ordering, peer>>

\* lines 135-149 of cmc, after symbols = parse(mana_cost) returned
Cmc ==
    /\ pc = "parsed"
    /\ LET r == CmcLoop(tokens, 1, 0) IN
          /\ total' = r.total
          /\ err' = r.err
          /\ pc' = IF r.err = NoErr THEN "cmc_returned" ELSE "cmc_error"
    /\ UNCHANGED <<s, stripped, pos, mode, tmp, tokens>>
    /\ UNCHANGED <<returned, ordering, peer>>

\* colors(symbols), lines 107-131, on the symbols parse returned
Colors ==
    /\ pc = "parsed"
    /\ LET r == colored_symbols(tokens) IN
          /\ err' = r.err
          /\ cs' = IF r.err = NoErr THEN colors_from_colored_symbols(r.cs)
                   ELSE cs
          /\ pc' = IF r.err = NoErr THEN "colors_returned" ELSE "colors_error"
    /\ UNCHANGED <<s, stripped, pos, mode, tmp, tokens, total, has, ordering,
                   peer>>

\* line 173 of has_x, after parse(mana_cost) returned
HasX ==
    /\ pc = "parsed"
    /\ has' = has_x(tokens)
    /\ pc' = "has_x_returned"
    /\ UNCHANGED <<s, stripped, pos, mode, tmp, tokens, err, total, cs,
                   ordering, peer>>

Next ==
    \/ StripBraces
    \/ ScanStart
    \/ ScanDigit
    \/ ScanColor
    \/ ScanSlash
    \/ ScanHalf
    \/ ScanHybrid
    \/ Finish
    \/ Cmc
    \/ Colors
    \/ HasX

Spec == Init /\ [][Next]_vars

SpecGroups == InitGroups /\ [][Next]_vars

\* a call that is not blocked takes its next step: the for loop of line 24
\* and the statements after it run on without waiting for anything
SpecFair == Init /\ [][Next]_vars /\ WF_vars(Next)

(***************************************************************************)
(* The calls of order(symbols) and of sort_score(symbols) on a collection  *)
(* of symbols.                                                             *)
(***************************************************************************)
\* the five colors, the colorless and snow markers, and a character that is
\* no color symbol
SymbolAlphabet == {"W", "U", "B", "R", "G", "C", "S", "X"}

\* the collections of symbols the documentation of the engine names, and
\* the five colors
SymbolExamples == { <<"G", "W", "U">>, <<"G", "R", "B", "U", "W">> }

SymbolSeqs == UNION {[1..n -> SymbolAlphabet] : n \in 0..MaxSymbols}

InitOrder ==
    /\ s = <<>>
    /\ stripped = <<>>
    /\ pos = 1
    /\ mode = START
    /\ tmp = <<>>
    /\ tokens = <<>>
    /\ err = NoErr
    /\ total = 0
    /\ cs = [required |-> {}, also |-> {}]
    /\ has = FALSE
    /\ symbols_arg \in (SymbolSeqs \cup SymbolExamples)
    /\ ordered = <<>>
    /\ score = 0
    /\ pc = "call"
    /\ peer = NoPeer

\* order(symbols), lines 175-177
Order ==
    /\ pc = "call"
    /\ LET r == order(symbols_arg) IN
          /\ err' = r.err
          /\ ordered' = r.value
          /\ pc' = IF r.err = NoErr THEN "order_returned" ELSE "order_error"
    /\ UNCHANGED <<s, stripped, pos, mode, tmp, tokens, total, returned,
                   symbols_arg, score, peer>>

\* sort_score(symbols), lines 197-202
SortScore ==
    /\ pc = "call"
    /\ LET r == sort_score(symbols_arg) IN
          /\ err' = r.err
          /\ score' = r.value
          /\ pc' = IF r.err = NoErr THEN "sort_score_returned"
                   ELSE "sort_score_error"
    /\ UNCHANGED <<s, stripped, pos, mode, tmp, tokens, total, returned,
                   symbols_arg, ordered, peer>>

NextOrder ==
    \/ Order
    \/ SortScore

SpecOrder == InitOrder /\ [][NextOrder]_vars

(***************************************************************************)
(* Two calls at the same time: a call of parse followed by cmc, colors or  *)
(* has_x, or a call of order or sort_score, and a second call of cmc in    *)
(* another thread, its steps interleaved with those of the first.  Each    *)
(* call has its own locals (lines 20-23, 135); the module holds no other   *)
(* state than the constants of lines 10-17.                                *)
(***************************************************************************)
InitConcurrent ==
    /\ \/ s \in Examples /\ symbols_arg = <<>> /\ pc = "strip"
       \/ s = <<>> /\ symbols_arg \in SymbolExamples /\ pc = "call"
    /\ stripped = <<>>
    /\ pos = 1
    /\ mode = START
    /\ tmp = <<>>
    /\ tokens = <<>>
    /\ err = NoErr
    /\ total = 0
    /\ cs = [required |-> {}, also |-> {}]
    /\ has = FALSE
    /\ ordered = <<>>
    /\ score = 0
    /\ peer \in {Frame(str, "strip") : str \in Examples}

\* the variables of the first call
own == <<s, stripped, pos, mode, tmp, tokens, pc, err, total,
         cs, has, symbols_arg, ordered, score>>

\* mutant: tmp is one variable of the module, shared by the calls
PeerLocalsSharedTmp == Locals(peer.mode, tmp, peer.tokens)

\* lines 20-22 in the second call: its own tmp, tokens and mode
PeerLocals == Locals(peer.mode, peer.tmp, peer.tokens)

\* line 23 in the second call
PeerStripBraces ==
    /\ peer.pc = "strip"
    /\ peer' = [peer EXCEPT !.stripped = Strip(peer.s), !.pc = "scan"]
    /\ UNCHANGED own

\* one iteration of the loop of line 24 in the second call
PeerScan ==
    /\ peer.pc = "scan"
    /\ peer.pos <= Len(peer.stripped)
    /\ LET st == Step(PeerLocals, peer.stripped[peer.pos], peer.s) IN
          peer' = [peer EXCEPT
                       !.mode = st.mode,
                       !.tmp = st.tmp,
                       !.tokens = st.tokens,
                       !.err = st.err,
                       !.pc = IF st.err = NoErr THEN "scan" ELSE "error",
                       !.pos = IF st.err = NoErr THEN @ + 1 ELSE @]
    /\ UNCHANGED own

\* lines 103-105 in the second call
PeerFinish ==
    /\ peer.pc = "scan"
    /\ peer.pos > Len(peer.stripped)
    /\ peer' = [peer EXCEPT !.tokens = Final(PeerLocals.tmp, peer.tokens),
                            !.pc = "parsed"]
    /\ UNCHANGED own

\* lines 135-149 in the second call
PeerCmc ==
    /\ peer.pc = "parsed"
    /\ LET r == CmcLoop(peer.tokens, 1, 0) IN
          peer' = [peer EXCEPT
                       !.total = r.total,
                       !.err = r.err,
                       !.pc = IF r.err = NoErr THEN "cmc_returned"
                              ELSE "cmc_error"]
    /\ UNCHANGED own

NextConcurrent ==
    \/ StripBraces
    \/ ScanStart
    \/ ScanDigit
    \/ ScanColor
    \/ ScanSlash
    \/ ScanHalf
    \/ ScanHybrid
    \/ Finish
    \/ Cmc
    \/ Colors
    \/ HasX
    \/ Order
    \/ SortScore
    \/ PeerStripBraces
    \/ PeerScan
    \/ PeerFinish
    \/ PeerCmc

SpecConcurrent == InitConcurrent /\ [][NextConcurrent]_vars

(***************************************************************************)
(* Vocabulary of the properties.                                           *)
(***************************************************************************)
\* a string with every '{' and '}' removed
NoBraces(str) == SelectSeq(str, LAMBDA c : c \notin {"{", "}"})

\* the tokens joined with no separator
RECURSIVE Join(_)
Join(toks) == IF toks = <<>> THEN <<>> ELSE Head(toks) \o Join(Tail(toks))

\* the brace groups t1, ..., tn of a string "{t1}{t2}...{tn}"
RECURSIVE BraceGroups(_)
BraceGroups(str) ==
    IF str = <<>> THEN <<>>
    ELSE LET close == CHOOSE k \in 1..Len(str) :
                          str[k] = "}" /\ \A j \in 1..(k - 1) : str[j] # "}"
         IN <<SubSeq(str, 2, close - 1)>>
                \o BraceGroups(SubSeq(str, close + 1, Len(str)))

Str_H_W == <<"{", "H", "}", "{", "W", "}">>
Str_HW == <<"{", "H", "W", "}">>
Str_WUP == <<"{", "W", "/", "U", "/", "P", "}">>
Str_Q == <<"{", "Q", "}">>
Str_WSlash == <<"{", "W", "/", "}">>
Str_2Slash == <<"{", "2", "/", "}">>

(***************************************************************************)
(* C1                                                                      *)
(***************************************************************************)
\* C1: whenever parse returns, the returned tokens joined in order with no
\* separator are exactly the input with every '{' and '}' removed.
C1_TokensPartitionInput == pc = "parsed" => Join(tokens) = NoBraces(s)

\* parse returned several tokens for an input that holds braces
C1_Witness ==
    /\ pc = "parsed"
    /\ Len(tokens) >= 2
    /\ NoBraces(s) # s
    /\ \E k \in 1..Len(tokens) : Len(tokens[k]) >= 2

(***************************************************************************)
(* C2                                                                      *)
(***************************************************************************)
\* the token starts with a color letter: simple colored, hybrid,
\* hybrid-Phyrexian or Phyrexian
StartsWithColor(tok) == tok # <<>> /\ MatchColor(tok[1])

\* the order of the tokens that parse accepts: a simple colored token, and a
\* variable token that directly follows a generic token, is followed only by
\* a token that starts with a color letter, and a generic token is not
\* directly followed by a half token
AcceptedOrder(groups) ==
    \A k \in 1..(Len(groups) - 1) :
        /\ generic(groups[k]) => ~half(groups[k + 1])
        /\ colored(groups[k]) => StartsWithColor(groups[k + 1])
        /\ (variable(groups[k]) /\ k > 1 /\ generic(groups[k - 1]))
               => StartsWithColor(groups[k + 1])

\* C2 as claimed: parse raises on no string that is a concatenation, in any
\* order, of tokens of the canonical shapes.
C2_TotalInAnyOrder == pc # "error"

\* C2 as amended: on a concatenation of canonical tokens parse raises
\* nothing when the tokens stand in an accepted order, and it returns only
\* for such an order.
C2_TotalInAcceptedOrder ==
    /\ AcceptedOrder(BraceGroups(s)) => pc # "error"
    /\ pc = "parsed" => AcceptedOrder(BraceGroups(s))

\* parse returned for three canonical tokens: generic, variable, colored
C2_Witness ==
    /\ pc = "parsed"
    /\ Len(BraceGroups(s)) = 3
    /\ generic(BraceGroups(s)[1])
    /\ variable(BraceGroups(s)[2])
    /\ colored(BraceGroups(s)[3])

(***************************************************************************)
(* C3                                                                      *)
(***************************************************************************)
\* C3 as claimed: for "{t1}...{tn}" of canonical tokens, whenever parse
\* returns it returns exactly t1, ..., tn.
C3_TokensAreBraceGroups == pc = "parsed" => tokens = BraceGroups(s)

\* no generic group is directly followed by a group that starts with a digit
NoDigitRun(groups) ==
    \A k \in 1..(Len(groups) - 1) :
        generic(groups[k]) => ~MatchDigit(groups[k + 1][1])

\* C3 as amended: the same, provided no generic group is directly followed
\* by a group that starts with a digit (a generic or a two-brid group).
C3_TokensAreBraceGroupsNoDigitRun ==
    (pc = "parsed" /\ NoDigitRun(BraceGroups(s))) => tokens = BraceGroups(s)

\* parse returned for three groups, one of them of several characters, with
\* a generic group that is followed by a non-digit
C3_Witness ==
    /\ pc = "parsed"
    /\ Len(BraceGroups(s)) = 3
    /\ generic(BraceGroups(s)[1])
    /\ NoDigitRun(BraceGroups(s))
    /\ \E k \in 1..3 : Len(BraceGroups(s)[k]) >= 3

(***************************************************************************)
(* C4                                                                      *)
(***************************************************************************)
\* C4: parse of a string has the outcome of parse of that string with every
\* '{' and '}' removed: the same tokens, or an exception in both cases.
C4_BracesAreDecoration ==
    /\ pc = "parsed" => parse(NoBraces(s)) = [raised |-> FALSE,
                                               tokens |-> tokens, err |-> NoErr]
    /\ pc = "error" => parse(NoBraces(s)).raised

\* parse returned tokens for an input with a brace inside a symbol
C4_Witness ==
    /\ pc = "parsed"
    /\ tokens # <<>>
    /\ \E k \in 2..(Len(s) - 1) :
           s[k] \in {"{", "}"} /\ s[k - 1] \notin {"{", "}"}
                               /\ s[k + 1] \notin {"{", "}"}

(***************************************************************************)
(* C5                                                                      *)
(***************************************************************************)
ColorLetters == {"W", "U", "B", "R", "G", "C", "S"}

\* the token has the shape color/color/P
HybridPhyrexianShape(tok) ==
    \E a, b \in ColorLetters : tok = <<a, "/", b, "/", "P">>

\* the eight canonical shapes of a token
CanonicalShape(tok) ==
    \/ tok # <<>> /\ \A k \in 1..Len(tok) :
           tok[k] \in {"0", "1", "2", "3", "4", "5", "6", "7", "8", "9"}
    \/ \E v \in {"X", "Y", "Z"} : tok = <<v>>
    \/ \E a \in ColorLetters : tok = <<a>>
    \/ \E a \in ColorLetters : tok = <<"H", a>>
    \/ \E a, b \in ColorLetters : tok = <<a, "/", b>>
    \/ HybridPhyrexianShape(tok)
    \/ \E a \in ColorLetters : tok = <<"2", "/", a>>
    \/ \E a \in ColorLetters : tok = <<a, "/", "P">>

\* C5: every token of a sequence that parse returns has one of the eight
\* canonical shapes.
C5_TokensAreCanonical ==
    pc = "parsed" => \A k \in 1..Len(tokens) : CanonicalShape(tokens[k])

(***************************************************************************)
(* C6                                                                      *)
(***************************************************************************)
\* C6: "{Q}", "{W/}" and "{2/}" raise, and so does every input whose scan
\* ends in mode SLASH or in mode HALF: parse never returns for them.
C6_MalformedRaise ==
    /\ s \in {Str_Q, Str_WSlash, Str_2Slash} => pc # "parsed"
    /\ pc = "parsed" => mode \notin {SLASH, HALF}

(***************************************************************************)
(* C7                                                                      *)
(***************************************************************************)
\* C7 as claimed: parse("{H}{W}") raises, parse("{HW}") returns the one
\* token HW, which counts 0.5 in cmc.
C7_SeparatedHalfRejected ==
    /\ s = Str_H_W => pc \notin {"parsed", "cmc_returned", "cmc_error"}
    /\ (s = Str_HW /\ pc = "parsed") => tokens = << <<"H", "W">> >>
    /\ (s = Str_HW /\ pc = "cmc_returned") => total = 1

\* C7 as amended: parse("{H}{W}") raises nothing and returns the one token
\* HW, as parse("{HW}") does; cmc of either returns 0.5.
C7_SeparatedHalfAccepted ==
    s \in {Str_H_W, Str_HW} =>
        /\ pc \notin {"error", "cmc_error"}
        /\ pc \in {"parsed", "cmc_returned"} => tokens = << <<"H", "W">> >>
        /\ pc = "cmc_returned" => total = 1

\* cmc("{H}{W}") returned
C7_Witness == s = Str_H_W /\ pc = "cmc_returned" /\ tokens = << <<"H", "W">> >>

(***************************************************************************)
(* C8                                                                      *)
(***************************************************************************)
\* the state of the transition table that a mode stands for
TableState(m) ==
    CASE m = START -> "START"
      [] m = DIGIT -> "DIGIT"
      [] m = COLOR -> "COLOR"
      [] m = SLASH -> "SLASH"
      [] m = HALF -> "HALF"
      [] m = HYBRID -> "HYBRID"

TableDigit(c) == c \in {"0", "1", "2", "3", "4", "5", "6", "7", "8", "9"}
TableColor(c) == c \in {"W", "U", "R", "B", "G", "C", "S"}
TableVariable(c) == c \in {"X", "Y", "Z"}

TableTo(state, acc, emitted) ==
    [state |-> state, tmp |-> acc, emit |-> emitted, fail |-> FALSE]
TableFail(state, acc) ==
    [state |-> state, tmp |-> acc, emit |-> <<>>, fail |-> TRUE]

\* the transition table of the tokenizer, row by row: the next state, the
\* next accumulator and the tokens emitted on character c, or a failure
TableStep(state, acc, c) ==
    CASE state = "START" ->
           IF TableDigit(c) THEN TableTo("DIGIT", acc \o <<c>>, <<>>)
           ELSE IF TableColor(c) THEN TableTo("COLOR", acc \o <<c>>, <<>>)
           ELSE IF TableVariable(c) THEN TableTo("START", acc, << <<c>> >>)
           ELSE IF c = "H" THEN TableTo("HALF", acc \o <<c>>, <<>>)
           ELSE TableFail(state, acc)
      [] state = "DIGIT" ->
           IF TableDigit(c) THEN TableTo("DIGIT", acc \o <<c>>, <<>>)
           ELSE IF TableColor(c) \/ TableVariable(c)
                THEN TableTo("COLOR", <<c>>, <<acc>>)
           ELSE IF c = "/" THEN TableTo("SLASH", acc \o <<c>>, <<>>)
           ELSE TableFail(state, acc)
      [] state = "COLOR" ->
           IF TableColor(c) THEN TableTo("COLOR", <<c>>, <<acc>>)
           ELSE IF c = "/" THEN TableTo("SLASH", acc \o <<c>>, <<>>)
           ELSE TableFail(state, acc)
      [] state = "SLASH" ->
           IF c = "P" THEN TableTo("START", <<>>, <<acc \o <<c>>>>)
           ELSE IF TableColor(c) THEN TableTo("HYBRID", acc \o <<c>>, <<>>)
           ELSE TableFail(state, acc)
      [] state = "HALF" ->
           IF TableColor(c) THEN TableTo("START", <<>>, <<acc \o <<c>>>>)
           ELSE TableFail(state, acc)
      [] state = "HYBRID" ->
           IF c = "/" THEN TableTo("SLASH", acc \o <<c>>, <<>>)
           ELSE IF TableDigit(c) THEN TableTo("DIGIT", <<c>>, <<acc>>)
           ELSE IF TableColor(c) THEN TableTo("COLOR", <<c>>, <<acc>>)
           ELSE IF TableVariable(c) THEN TableTo("START", <<>>, <<acc, <<c>>>>)
           ELSE IF c = "H" THEN TableTo("HALF", <<c>>, <<acc>>)
           ELSE TableFail(state, acc)

\* C8: on every character the scan does what the transition table says from
\* the same state and accumulator - the same next state, accumulator and
\* emitted tokens, or a failure in both - and after the last character a
\* non-empty accumulator is emitted as the final token.
C8_ScanRefinesTable ==
    [][/\ HasChar =>
             LET r == TableStep(TableState(mode), tmp, stripped[pos]) IN
             IF r.fail THEN pc' = "error"
             ELSE /\ pc' = "scan"
                  /\ pos' = pos + 1
                  /\ TableState(mode') = r.state
                  /\ tmp' = r.tmp
                  /\ tokens' = tokens \o r.emit
       /\ (pc = "scan" /\ pos > Len(stripped)) =>
             /\ pc' = "parsed"
             /\ tokens' = IF tmp = <<>> THEN tokens ELSE tokens \o <<tmp>>
      ]_vars

\* the scan re-entered SLASH from HYBRID: a second slash after a hybrid pair
C8_Witness == pc = "scan" /\ mode = SLASH /\ Len(tmp) = 4

(***************************************************************************)
(* C9                                                                      *)
(***************************************************************************)
\* the classifiers that accept a token
Accepting(tok) ==
    {n \in {"generic", "variable", "phyrexian", "hybrid", "twobrid", "half",
            "colored"} :
        CASE n = "generic" -> generic(tok)
          [] n = "variable" -> variable(tok)
          [] n = "phyrexian" -> phyrexian(tok)
          [] n = "hybrid" -> hybrid(tok)
          [] n = "twobrid" -> twobrid(tok)
          [] n = "half" -> half(tok)
          [] n = "colored" -> colored(tok)}

\* C9 as claimed: at most one classifier accepts a token that parse returns.
C9_ClassifiersExclusive ==
    pc = "parsed" =>
        \A k \in 1..Len(tokens) : Cardinality(Accepting(tokens[k])) <= 1

\* C9 as amended: at most one classifier accepts a token that parse returns,
\* except a hybrid-Phyrexian token color/color/P, which phyrexian and hybrid
\* both accept and no other classifier does.
C9_ClassifiersExclusiveButHybridPhyrexian ==
    pc = "parsed" =>
        \A k \in 1..Len(tokens) :
            IF HybridPhyrexianShape(tokens[k])
            THEN Accepting(tokens[k]) = {"phyrexian", "hybrid"}
            ELSE Cardinality(Accepting(tokens[k])) <= 1

\* parse returned a hybrid-Phyrexian token
C9_Witness ==
    /\ pc = "parsed"
    /\ \E k \in 1..Len(tokens) : HybridPhyrexianShape(tokens[k])

(***************************************************************************)
(* C10                                                                     *)
(***************************************************************************)
\* C10: whenever parse returns for an input, cmc of that input returns: its
\* "I don't recognize" exception is never raised.
C10_CmcRecognizesParsedTokens == pc # "cmc_error"

(***************************************************************************)
(* C11                                                                     *)
(***************************************************************************)
Str_2_WU_X == <<"{", "2", "}", "{", "W", "/", "U", "}", "{", "X", "}">>
Str_2W == <<"{", "2", "/", "W", "}">>

\* the number a string of decimal digits denotes, read from the left
RECURSIVE Decimal(_, _)
Decimal(digits, acc) ==
    IF digits = <<>> THEN acc
    ELSE Decimal(Tail(digits),
                 10 * acc + CHOOSE d \in 0..9 : DigitChars[d + 1] = Head(digits))

\* what a token of a canonical shape adds to the converted cost, in halves
Contribution(tok) ==
    IF \A k \in 1..Len(tok) : TableDigit(tok[k]) THEN 2 * Decimal(tok, 0)
    ELSE IF \E a \in ColorLetters : tok = <<"2", "/", a>> THEN 4
    ELSE IF \E a \in ColorLetters : tok = <<"H", a>> THEN 1
    ELSE IF \E v \in {"X", "Y", "Z"} : tok = <<v>> THEN 0
    ELSE 2

RECURSIVE SumContributions(_)
SumContributions(toks) ==
    IF toks = <<>> THEN 0
    ELSE Contribution(Head(toks)) + SumContributions(Tail(toks))

\* C11: whenever cmc returns, its value is the sum over the tokens of parse
\* of: the number for a generic token, 2 for a two-brid, 0.5 for a half, 0
\* for a variable, 1 for a Phyrexian, hybrid, hybrid-Phyrexian or simple
\* colored token; cmc("{2}{W/U}{X}") is 3.0 and cmc("{2/W}") is 2.0.
C11_CmcIsSumOfContributions ==
    pc = "cmc_returned" =>
        /\ \A k \in 1..Len(tokens) : CanonicalShape(tokens[k])
        /\ total = SumContributions(tokens)
        /\ s = Str_2_WU_X => total = 6
        /\ s = Str_2W => total = 4

\* cmc returned for "{2}{W/U}{X}": a generic, a hybrid and a variable token
C11_Witness == s = Str_2_WU_X /\ pc = "cmc_returned" /\ Len(tokens) = 3

(***************************************************************************)
(* C12                                                                     *)
(***************************************************************************)
\* the colors a token of a canonical shape adds to also: both colors of a
\* hybrid or hybrid-Phyrexian token, the color of a Phyrexian token and of
\* a two-brid token
AlsoOf(tok) ==
    { <<a>> : a \in { x \in ColorLetters :
        \/ \E b \in ColorLetters :
              tok \in { <<x, "/", b>>, <<b, "/", x>>,
                        <<x, "/", b, "/", "P">>, <<b, "/", x, "/", "P">> }
        \/ tok = <<x, "/", "P">>
        \/ tok = <<"2", "/", x>> } }

\* the color a simple colored token adds to required
RequiredOf(tok) == { <<a>> : a \in { x \in ColorLetters : tok = <<x>> } }

\* C12: whenever colors returns, required is the set of the simple colored
\* tokens and also is the set of both colors of every hybrid token (A/B and
\* A/B/P), the color of every Phyrexian token and the color of every
\* two-brid token; generic and variable tokens add nothing, neither set
\* holds P or 2, and ["W/U/P"] gives also = {W, U}, required = {}.
C12_ColorsOfTokens ==
    pc = "colors_returned" =>
        /\ cs.required = UNION { RequiredOf(tokens[k]) : k \in 1..Len(tokens) }
        /\ cs.also = UNION { AlsoOf(tokens[k]) : k \in 1..Len(tokens) }
        /\ (cs.required \cup cs.also) \cap { <<"P">>, <<"2">> } = {}
        /\ s = Str_WUP => cs = [required |-> {}, also |-> { <<"W">>, <<"U">> }]

\* colors returned for a hybrid-Phyrexian token next to a simple colored one
C12_Witness ==
    /\ pc = "colors_returned"
    /\ \E k \in 1..Len(tokens) : HybridPhyrexianShape(tokens[k])
    /\ cs.required # {}
    /\ Cardinality(cs.also) = 2

(***************************************************************************)
(* C13                                                                     *)
(***************************************************************************)
\* C13: colors raises if and only if a token of the sequence is accepted by
\* none of the classifiers generic, variable, phyrexian, hybrid, twobrid,
\* half, colored; on tokens of the canonical shapes only it never raises.
C13_ColorsRaisesOnlyOnUnrecognized ==
    /\ pc = "colors_error" =>
           \E k \in 1..Len(tokens) : Accepting(tokens[k]) = {}
    /\ pc = "colors_returned" =>
           \A k \in 1..Len(tokens) : Accepting(tokens[k]) # {}
    /\ (\A k \in 1..Len(tokens) : CanonicalShape(tokens[k])) =>
           pc # "colors_error"

(***************************************************************************)
(* C14                                                                     *)
(***************************************************************************)
Str_X_X_2 == <<"{", "X", "}", "{", "X", "}", "{", "2", "}">>
Str_2_W == <<"{", "2", "}", "{", "W", "}">>

\* C14: has_x returns true if and only if a token of parse is a single X, Y
\* or Z; it returns whenever parse returns, true for "{X}{X}{2}" and false
\* for "{2}{W}".
C14_HasXIffVariableToken ==
    /\ pc = "has_x_returned" =>
           /\ has <=> \E k \in 1..Len(tokens) :
                          tokens[k] \in { <<"X">>, <<"Y">>, <<"Z">> }
           /\ err = NoErr
    /\ s = Str_X_X_2 => (pc = "has_x_returned" => has) /\ pc # "error"
    /\ s = Str_2_W => (pc = "has_x_returned" => ~has) /\ pc # "error"

\* has_x returned true for a cost whose variable token is not the first one
C14_Witness ==
    /\ pc = "has_x_returned"
    /\ has
    /\ Len(tokens) >= 2
    /\ tokens[1] # <<"X">>

(***************************************************************************)
(* Vocabulary of the properties of order and sort_score.                   *)
(***************************************************************************)
\* the symbols of syms in the arrangement f, a permutation of 1..Len(syms)
Arranged(syms, f) == [k \in 1..Len(syms) |-> syms[f[k]]]

\* the permutations of the positions of syms
Arrangements(syms) == Permutations(1..Len(syms))

\* the wheel-distance score of a sequence of color symbols
ScoreOf(syms) == order_score(syms).value

\* the least score over all arrangements of syms
MinScore(syms) ==
    LET all == {ScoreOf(Arranged(syms, f)) : f \in Arrangements(syms)} IN
    CHOOSE m \in all : \A x \in all : m <= x

\* how often x stands in syms
Count(syms, x) == Cardinality({k \in 1..Len(syms) : syms[k] = x})

\* a and b hold the same symbols with the same multiplicities
SameSymbols(a, b) ==
    Len(a) = Len(b) /\ \A x \in SymbolAlphabet : Count(a, x) = Count(b, x)

\* f comes before g in the lexicographic order of the positions
LexBefore(f, g) ==
    \E k \in DOMAIN f : f[k] < g[k] /\ \A j \in 1..(k - 1) : f[j] = g[j]

Sym_GWU == <<"G", "W", "U">>
Sym_WUG == <<"W", "U", "G">>
Sym_GRBUW == <<"G", "R", "B", "U", "W">>

(***************************************************************************)
(* C15                                                                     *)
(***************************************************************************)
\* C15: order returns a permutation of its argument (the same symbols with
\* the same multiplicities) whose score is the minimum of the score over
\* all permutations of the argument.
C15_OrderIsMinimalPermutation ==
    pc = "order_returned" =>
        /\ SameSymbols(ordered, symbols_arg)
        /\ ScoreOf(ordered) = MinScore(symbols_arg)

\* order returned for the five colors given against the wheel
C15_Witness ==
    /\ pc = "order_returned"
    /\ symbols_arg = Sym_GRBUW
    /\ ordered = <<"W", "U", "B", "R", "G">>

(***************************************************************************)
(* C16                                                                     *)
(***************************************************************************)
\* C16 as claimed: order of the colors G, W, U returns W, U, G, and W, U, G
\* has the minimum score of the permutations of G, W, U.
C16_OrderOfGWUIsWUG ==
    (pc = "order_returned" /\ SameSymbols(symbols_arg, Sym_GWU)) =>
        /\ ordered = Sym_WUG
        /\ ScoreOf(Sym_WUG) = MinScore(Sym_GWU)

\* C16 as amended: order of the colors G, W, U, in whatever arrangement
\* they are given, returns G, W, U, whose score 24 is lower than the score
\* of every other permutation; W, U, G scores 40.
C16_OrderOfGWUIsGWU ==
    (pc = "order_returned" /\ SameSymbols(symbols_arg, Sym_GWU)) =>
        /\ ordered = Sym_GWU
        /\ ScoreOf(Sym_GWU) = 24
        /\ ScoreOf(Sym_WUG) = 40
        /\ \A f \in Arrangements(Sym_GWU) :
               Arranged(Sym_GWU, f) # Sym_GWU
                   => ScoreOf(Arranged(Sym_GWU, f)) > 24

\* order returned for W, U, G given in that arrangement
C16_Witness ==
    pc = "order_returned" /\ symbols_arg = Sym_WUG /\ ordered = Sym_GWU

(***************************************************************************)
(* C17                                                                     *)
(***************************************************************************)
\* C17 as claimed: order returns the same sequence for every arrangement of
\* the symbols of its argument, the markers C and S included.
C17_OrderIgnoresArrangement ==
    pc = "order_returned" =>
        \A f \in Arrangements(symbols_arg) :
            order(Arranged(symbols_arg, f)).value = ordered

\* C17 as amended: order returns the same sequence for every arrangement of
\* the symbols of its argument when the argument holds none of the markers
\* C and S.
C17_OrderIgnoresArrangementOfColors ==
    (pc = "order_returned" /\ ~InList(symbols_arg, "C")
                           /\ ~InList(symbols_arg, "S")) =>
        \A f \in Arrangements(symbols_arg) :
            order(Arranged(symbols_arg, f)).value = ordered

\* order returned for three colors, one of them twice, given out of order
C17_Witness ==
    /\ pc = "order_returned"
    /\ symbols_arg = <<"B", "W", "B">>
    /\ ordered # symbols_arg

(***************************************************************************)
(* C18                                                                     *)
(***************************************************************************)
\* the arrangements of syms of the least score
Minimal(syms) ==
    LET m == MinScore(syms) IN
    {f \in Arrangements(syms) : ScoreOf(Arranged(syms, f)) = m}

\* C18: of the permutations of the least score order returns the one that
\* is generated first, which is the first in the lexicographic order of the
\* positions in the argument as given.
C18_TiesKeepGenerationOrder ==
    pc = "order_returned" =>
        LET minimal == Minimal(symbols_arg)
            first == CHOOSE f \in minimal :
                         \A g \in minimal : f = g \/ LexBefore(f, g)
        IN ordered = Arranged(symbols_arg, first)

\* order returned where different sequences share the least score and the
\* first generated one is not the argument itself
C18_Witness ==
    /\ pc = "order_returned"
    /\ Len(symbols_arg) = 3
    /\ ordered # symbols_arg
    /\ \E f, g \in Minimal(symbols_arg) :
           Arranged(symbols_arg, f) # Arranged(symbols_arg, g)

(***************************************************************************)
(* C19                                                                     *)
(***************************************************************************)
\* C19: order raises nothing on a collection of characters from W, U, B, R,
\* G, C, S, and for the empty collection it returns the empty sequence,
\* whose score is 0.
C19_OrderNeverFails ==
    /\ (\A k \in 1..Len(symbols_arg) : symbols_arg[k] \in ColorLetters)
           => pc # "order_error"
    /\ (pc = "order_returned" /\ symbols_arg = <<>>)
           => ordered = <<>> /\ order_score(ordered) = Value(0)

\* order returned for a collection that holds both markers and a color
C19_Witness ==
    /\ pc = "order_returned"
    /\ InList(symbols_arg, "C")
    /\ InList(symbols_arg, "S")
    /\ \E k \in 1..Len(symbols_arg) : InList(positions, symbols_arg[k])

(***************************************************************************)
(* C20                                                                     *)
(***************************************************************************)
\* the position of a symbol in the list none, C, S, W, U, B, R, G
PriorityIndex(x) ==
    CASE x = "C" -> 1 [] x = "S" -> 2 [] x = "W" -> 3 [] x = "U" -> 4
      [] x = "B" -> 5 [] x = "R" -> 6 [] x = "G" -> 7

\* the sum over the positions j..Len(syms) of the priority index times 10
\* times the position counted from the end, from 1
RECURSIVE WeightedSum(_, _)
WeightedSum(syms, j) ==
    IF j > Len(syms) THEN 0
    ELSE PriorityIndex(syms[j]) * 10 * (Len(syms) - j + 1)
             + WeightedSum(syms, j + 1)

\* C20: sort_score is the sum, over the reversed sequence with position i
\* counted from 1, of the index of the symbol in none, C, S, W, U, B, R, G
\* times 10 times i; the empty sequence scores 0.
C20_SortScoreIsWeightedSum ==
    pc = "sort_score_returned" =>
        /\ score = WeightedSum(symbols_arg, 1)
        /\ symbols_arg = <<>> => score = 0

\* sort_score returned 3*30 + 4*20 + 7*10 for W, U, G
C20_Witness ==
    pc = "sort_score_returned" /\ symbols_arg = Sym_WUG /\ score = 240

(***************************************************************************)
(* C21                                                                     *)
(***************************************************************************)
\* syms with its j-th symbol replaced by x
WithSymbol(syms, j, x) == [syms EXCEPT ![j] = x]

\* the multiplier sort_score applies to the priority index of the j-th
\* symbol: what the score gains when that index grows by one (from C to S)
Weight(syms, j) ==
    sort_score(WithSymbol(syms, j, "S")).value
        - sort_score(WithSymbol(syms, j, "C")).value

\* C21 as claimed: in a sequence of two or more symbols the multiplier grows
\* with the position in the sequence as passed in, so the last symbol has
\* the largest weight and the first the smallest.
C21_LaterSymbolsWeighMore ==
    (pc = "sort_score_returned" /\ Len(symbols_arg) >= 2) =>
        \A j, k \in 1..Len(symbols_arg) :
            j < k => Weight(symbols_arg, j) < Weight(symbols_arg, k)

\* C21 as amended: in a sequence of n >= 2 symbols the multiplier shrinks
\* with the position in the sequence as passed in: it is 10 * (n - j + 1)
\* at position j, so the first symbol has the largest weight, 10 * n, and
\* the last the smallest, 10.
C21_EarlierSymbolsWeighMore ==
    (pc = "sort_score_returned" /\ Len(symbols_arg) >= 2) =>
        LET n == Len(symbols_arg) IN
        /\ \A j \in 1..n : Weight(symbols_arg, j) = 10 * (n - j + 1)
        /\ \A j, k \in 1..n :
               j < k => Weight(symbols_arg, j) > Weight(symbols_arg, k)
        /\ score = WeightedSum(symbols_arg, 1)

\* sort_score returned 3*20 + 7*10 for W, G: W weighs 20, G weighs 10
C21_Witness ==
    /\ pc = "sort_score_returned"
    /\ symbols_arg = <<"W", "G">>
    /\ score = 130
    /\ Weight(symbols_arg, 1) = 20
    /\ Weight(symbols_arg, 2) = 10

(***************************************************************************)
(* C22                                                                     *)
(***************************************************************************)
\* the five colors
FiveColors == {"W", "U", "B", "R", "G"}

\* the colors of a set, as a sequence
SeqOfSet(colorset) == SelectSeq(positions, LAMBDA x : x \in colorset)

\* what order returns for the sets of the five colors
CanonicalOrders == {order(SeqOfSet(colorset)).value : colorset \in SUBSET FiveColors}

\* syms holds colors of the five, each at most once
IsColorSet(syms) ==
    /\ \A k \in 1..Len(syms) : syms[k] \in FiveColors
    /\ \A j, k \in 1..Len(syms) : syms[j] = syms[k] => j = k

\* C22: two different sequences that are each what order returns for a set
\* of the five colors never have the same sort_score.
C22_SortScoreSeparatesCanonicalOrders ==
    (pc = "order_returned" /\ IsColorSet(symbols_arg)) =>
        \A other \in CanonicalOrders :
            other # ordered
                => sort_score(other).value # sort_score(ordered).value

(***************************************************************************)
(* C23                                                                     *)
(***************************************************************************)
\* the first of the tokens that fails the test
FirstFailing(toks, Test(_)) ==
    toks[CHOOSE k \in 1..Len(toks) :
             ~Test(toks[k]) /\ \A j \in 1..(k - 1) : Test(toks[j])]

\* the tokens cmc has a branch for, and those colored_symbols has one for
CmcCounts(tok) == Accepting(tok) # {}
ColorsKnows(tok) == Accepting(tok) \ {"half"} # {}

\* C23 as claimed: an exception of parse carries the offending character,
\* the partial token tmp and the input string; an exception of colors or
\* of cmc for an unrecognized token carries the offending token and the
\* whole token sequence or input string.
C23_ErrorsCarryContext ==
    /\ pc = "error" =>
           /\ err.c = <<stripped[pos]>>
           /\ tmp # <<>> => (tmp = err.c \/ tmp = err.s)
           /\ err.s = s
    /\ pc = "colors_error" =>
           err.c = FirstFailing(tokens, ColorsKnows) /\ err.s = tokens
    /\ pc = "cmc_error" =>
           err.c = FirstFailing(tokens, CmcCounts) /\ err.s = s

\* C23 as amended: an exception of parse carries the offending character and
\* the input string as given, braces included (not tmp); an exception of
\* colors carries the offending token and the whole token sequence; an
\* exception of cmc carries the offending token alone.
C23_ErrorsCarryCharacterOrToken ==
    /\ pc = "error" => err.c = <<stripped[pos]>> /\ err.s = s
    /\ pc = "colors_error" =>
           err.c = FirstFailing(tokens, ColorsKnows) /\ err.s = tokens
    /\ pc = "cmc_error" =>
           err.c = FirstFailing(tokens, CmcCounts) /\ err.s = <<>>

\* parse raised with a partial token pending, on an input with braces
C23_Witness ==
    /\ pc = "error"
    /\ tmp # <<>>
    /\ tmp # err.c
    /\ s # stripped
    /\ err.s = s

(***************************************************************************)
(* C24                                                                     *)
(***************************************************************************)
\* what cmc does on the tokens of str when it runs alone
CmcAlone(str) == CmcLoop(parse(str).tokens, 1, 0)

\* what colors does on the tokens of str when it runs alone
ColorsAlone(str) == colored_symbols(parse(str).tokens)

\* C24: when the steps of two calls are interleaved, each call returns (or
\* raises) what it returns when it runs alone from its argument.
C24_InterleavedCallsReturnAsAlone ==
    /\ pc = "error" => parse(s).raised /\ err = parse(s).err
    /\ pc = "parsed" => ~parse(s).raised /\ tokens = parse(s).tokens
    /\ pc \in {"cmc_returned", "cmc_error"} =>
           /\ ~parse(s).raised
           /\ total = CmcAlone(s).total
           /\ err = CmcAlone(s).err
    /\ pc = "colors_returned" =>
           /\ ColorsAlone(s).err = NoErr
           /\ cs = colors_from_colored_symbols(ColorsAlone(s).cs)
    /\ pc = "colors_error" => err = ColorsAlone(s).err /\ err # NoErr
    /\ pc = "has_x_returned" => has = has_x(parse(s).tokens)
    /\ pc = "order_returned" => ordered = order(symbols_arg).value
    /\ pc = "sort_score_returned" => score = sort_score(symbols_arg).value
    /\ peer.pc = "error" =>
           parse(peer.s).raised /\ peer.err = parse(peer.s).err
    /\ peer.pc = "parsed" =>
           ~parse(peer.s).raised /\ peer.tokens = parse(peer.s).tokens
    /\ peer.pc \in {"cmc_returned", "cmc_error"} =>
           /\ ~parse(peer.s).raised
           /\ peer.total = CmcAlone(peer.s).total
           /\ peer.err = CmcAlone(peer.s).err

\* the second call is at the end of its scan with a partial token pending
\* while the first call, on another input, has returned
C24_Witness ==
    /\ pc = "cmc_returned"
    /\ total > 0
    /\ peer.pc = "scan"
    /\ peer.pos > Len(peer.stripped)
    /\ peer.tmp # <<>>
    /\ peer.s # s

(***************************************************************************)
(* C25                                                                     *)
(***************************************************************************)
\* a half token: H and a color letter
HalfShape(tok) == Len(tok) = 2 /\ tok[1] = "H" /\ tok[2] \in ColorLetters

\* the number of half tokens of a token sequence
HalfCount(toks) == Cardinality({k \in 1..Len(toks) : HalfShape(toks[k])})

\* C25: whenever cmc returns, its value (counted in halves) is not negative,
\* and it is a whole number, an even number of halves, whenever the tokens
\* hold an even number of half tokens.
C25_CmcIsHalfIntegral ==
    pc = "cmc_returned" =>
        /\ total \in Nat
        /\ HalfCount(tokens) % 2 = 0 => total % 2 = 0

\* cmc returned a whole number for a cost with two half tokens and another
\* token
C25_Witness ==
    /\ pc = "cmc_returned"
    /\ HalfCount(tokens) = 2
    /\ Len(tokens) = 3
    /\ total % 2 = 0
    /\ total > 2

(***************************************************************************)
(* C26                                                                     *)
(***************************************************************************)
\* the index of a color on the cycle W, U, B, R, G
WheelIndex(x) ==
    CASE x = "W" -> 0 [] x = "U" -> 1 [] x = "B" -> 2 [] x = "R" -> 3
      [] x = "G" -> 4

\* the forward distance on the cycle from color a to color b
ForwardDistance(a, b) ==
    IF WheelIndex(b) < WheelIndex(a)
    THEN WheelIndex(b) - WheelIndex(a) + 5
    ELSE WheelIndex(b) - WheelIndex(a)

\* the sum of the forward distances of the consecutive pairs from the k-th
RECURSIVE TotalDistance(_, _)
TotalDistance(cols, k) ==
    IF k >= Len(cols) THEN 0
    ELSE ForwardDistance(cols[k], cols[k + 1]) + TotalDistance(cols, k + 1)

\* syms without the markers C and S
ColorsOnly(syms) == SelectSeq(syms, LAMBDA x : x # "C" /\ x # "S")

\* the index of the first color of syms, 0 when it has none
FirstIndex(syms) ==
    IF ColorsOnly(syms) = <<>> THEN 0 ELSE WheelIndex(ColorsOnly(syms)[1])

\* the score as the claim words it
WheelScore(syms) ==
    IF ColorsOnly(syms) = <<>> THEN 0
    ELSE 10 * TotalDistance(ColorsOnly(syms), 1) + FirstIndex(syms)

\* a is before b by total distance, and by the first index on equal distance
DistanceThenFirst(a, b) ==
    LET da == TotalDistance(ColorsOnly(a), 1)
        db == TotalDistance(ColorsOnly(b), 1)
    IN da < db \/ (da = db /\ FirstIndex(a) < FirstIndex(b))

\* C26: the score order_score gives each candidate ordering of the argument
\* of order is 0 when only C and S are in it and otherwise 10 times the sum
\* of the forward distances over the consecutive pairs of what remains
\* without C and S, plus the cycle index of the first remaining color; so
\* one score is lower than another exactly when the total distance is
\* lower, or equal with a lower index of the first color.
C26_OrderScoreIsWheelScore ==
    pc = "order_returned" =>
        \A f \in Arrangements(symbols_arg) :
            LET candidate == Arranged(symbols_arg, f) IN
            /\ order_score(candidate) = Value(WheelScore(candidate))
            /\ ScoreOf(candidate) < ScoreOf(symbols_arg)
                   <=> DistanceThenFirst(candidate, symbols_arg)

\* order returned for W, C, G: W, G has distance 4 and scores 40; G, W
\* wraps around the cycle with distance 1 and scores 14
C26_Witness ==
    /\ pc = "order_returned"
    /\ symbols_arg = <<"W", "C", "G">>
    /\ ScoreOf(symbols_arg) = 40
    /\ ScoreOf(ordered) = 14

(***************************************************************************)
(* C27                                                                     *)
(***************************************************************************)
\* tok holds one of the variable characters
HoldsVariable(tok) == \E k \in 1..Len(tok) : tok[k] \in {"X", "Y", "Z"}

\* C27: no token that parse returns is longer than one character and holds
\* X, Y or Z, so every X, Y or Z of the input is a token of its own.
C27_VariableIsOwnToken ==
    pc = "parsed" =>
        /\ \A k \in 1..Len(tokens) :
               HoldsVariable(tokens[k]) => Len(tokens[k]) = 1
        /\ Cardinality({k \in 1..Len(stripped) : <<stripped[k]>> \in
                            {<<"X">>, <<"Y">>, <<"Z">>}})
               = Cardinality({k \in 1..Len(tokens) : HoldsVariable(tokens[k])})

(***************************************************************************)
(* C28                                                                     *)
(***************************************************************************)
\* the locals of parse after the first n characters of stripped
AfterPrefix(n) ==
    ParseLoop(Locals(START, <<>>, <<>>), SubSeq(stripped, 1, n), 1, s)

\* where the scan stands: the character at pos is the next to be read, and
\* an exception is raised at the first character with no transition
C28_Position ==
    /\ pos \in 1..(Len(stripped) + 1)
    /\ pc = "scan" => err = NoErr
    /\ pc = "parsed" => pos = Len(stripped) + 1 /\ err = NoErr
    /\ pc = "error" =>
           /\ pos <= Len(stripped)
           /\ AfterPrefix(pos - 1).err = NoErr
           /\ AfterPrefix(pos).err = err
           /\ err # NoErr

\* an iteration reads the character at pos and moves to the next one, or
\* raises and stays; nothing follows a raised exception; the input is
\* never rewritten
C28_OneStepPerCharacter ==
    /\ (pc = "scan" /\ pos <= Len(stripped)) =>
           \/ pc' = "scan" /\ pos' = pos + 1
           \/ pc' = "error" /\ pos' = pos
    /\ (pc = "scan" /\ pos > Len(stripped)) => pc' = "parsed" /\ pos' = pos
    /\ pc # "error"
    /\ pc # "strip" => stripped' = stripped

\* parse has returned or raised
C28_Ended == pc \notin {"strip", "scan"}

\* C28: parse reads the characters of the stripped input once each, from
\* left to right, one transition per character, and ends, with its tokens
\* or with the exception raised at the first character that has no
\* transition, after which no character is read.
C28_SinglePassTerminates ==
    /\ []C28_Position
    /\ [][C28_OneStepPerCharacter]_vars
    /\ <>C28_Ended

\* parse raised at the third character of four after two transitions
C28_Witness ==
    /\ pc = "error"
    /\ Len(stripped) = 4
    /\ pos = 3
    /\ tokens # <<>>

(***************************************************************************)
(* C29                                                                     *)
(***************************************************************************)
\* C29: at every point of the scan tmp is empty exactly when the mode is
\* START, and no token of the list is the empty string.
C29_TmpEmptyIffStart ==
    /\ tmp = <<>> <=> mode = START
    /\ mode \in {START, DIGIT, COLOR, SLASH, HALF, HYBRID}
    /\ \A k \in 1..Len(tokens) : tokens[k] # <<>>

\* the scan is back in START with tmp empty after a token was emitted, and
\* more characters follow
C29_Witness ==
    /\ pc = "scan"
    /\ mode = START
    /\ tmp = <<>>
    /\ tokens # <<>>
    /\ pos <= Len(stripped)

(***************************************************************************)
(* C30                                                                     *)
(***************************************************************************)
\* C30: for an argument made of the five colors only, repetitions allowed,
\* every arrangement of the least score is the same sequence, the one order
\* returns, and order returns it for every arrangement of the argument.
C30_MinimumIsUniqueForColors ==
    (pc = "order_returned"
         /\ \A k \in 1..Len(symbols_arg) : symbols_arg[k] \in FiveColors) =>
        /\ \A f \in Minimal(symbols_arg) :
               Arranged(symbols_arg, f) = ordered
        /\ \A f \in Arrangements(symbols_arg) :
               LET arranged == Arranged(symbols_arg, f) IN
               \A g \in Minimal(arranged) : Arranged(arranged, g) = ordered

\* order returned for colors with a repetition: two arrangements of the
\* positions have the least score and both are the same sequence
C30_Witness ==
    /\ pc = "order_returned"
    /\ symbols_arg = <<"U", "W", "U">>
    /\ ordered = <<"W", "U", "U">>
    /\ Cardinality(Minimal(symbols_arg)) = 2

====
